---- MODULE Spec2Model ----
(***************************************************************************)
(* A model of aurora.js: the multi-key store with round-robin key          *)
(* rotation (src/lib/key_store.js) and the engine's call translator, error *)
(* classifier, gas accountant and state demultiplexer (the Engine class in *)
(* src/lib/block.d.ts).                                                     *)
(***************************************************************************)
EXTENDS Integers, Sequences, FiniteSets, TLC

(***************************************************************************)
(* Bounds of the model.                                                    *)
(***************************************************************************)
\* reKey calls explored (the counter itself is unbounded in the code)
MaxReKey == 4
\* receipts in a transaction status
MaxReceipts == 2
\* records in a full-state scan
MaxRecords == 3
\* how often a caller reuses one options object
MaxRepeat == 2
\* chunks of a block
MaxChunks == 3

(***************************************************************************)
(* Values.                                                                 *)
(***************************************************************************)
\* JavaScript's undefined
None == "undefined"

Networks == {"testnet", "mainnet"}

\* account identifiers are strings: sequences of UTF-16 code units
AcctA == <<97>>
AcctAB == <<97, 98>>
AcctB == <<98>>
\* accounts handed to the in-memory store's operations
AccountIDs == {AcctA, AcctB}
\* accounts the other key sources of the merge may hold
AllAccountIDs == {AcctA, AcctAB, AcctB}

\* key pairs are objects, told apart by identity
KeyPairs == {"k1", "k2", "k3"}

Range(s) == {s[i] : i \in 1..Len(s)}

VARIABLES
    networkID,      \* InMemoryMultiKeyStore.networkID (= KeyStore.networkID)
    reKeyCounter,   \* InMemoryMultiKeyStore.reKeyCounter
    store,          \* InMemoryMultiKeyStore.store: Map<accountID, Set<KeyPair>>, in insertion order
    lower,          \* KeyStore.keyStores[1..]: per source, its accounts for the bound network
    ret,            \* the last key-store operation and what it returned
    rotLog,         \* per account, getKey(networkID, account) as seen after each reKey since the last pool mutation
    reKeys,         \* the number of reKey calls made so far
    calls,          \* per caller, the engine method it is running: position, arguments, result
    records,        \* the records the last full-state scan (viewState) returned
    engineStorage   \* the EngineStorage map the last getStorage built from them

storeVars == <<networkID, reKeyCounter, store, lower, ret, rotLog, reKeys>>
engineVars == <<calls, records, engineStorage>>
vars == <<networkID, reKeyCounter, store, lower, ret, rotLog, reKeys, calls, records, engineStorage>>

(***************************************************************************)
(* Map and Set of JavaScript, both iterating in insertion order.           *)
(***************************************************************************)
MapHas(m, a) == \E i \in 1..Len(m) : m[i].account = a

MapGet(m, a) == m[CHOOSE i \in 1..Len(m) : m[i].account = a].keyPairs

MapSet(m, a, v) ==
    IF MapHas(m, a)
    THEN [i \in 1..Len(m) |-> IF m[i].account = a THEN [account |-> a, keyPairs |-> v] ELSE m[i]]
    ELSE Append(m, [account |-> a, keyPairs |-> v])

MapDelete_emptied(m, a) ==
    [i \in 1..Len(m) |-> IF m[i].account = a THEN [account |-> a, keyPairs |-> <<>>] ELSE m[i]]

MapDelete(m, a) == SelectSeq(m, LAMBDA e : e.account # a)

MapKeys(m) == [i \in 1..Len(m) |-> m[i].account]

SetAdd(s, x) == IF x \in Range(s) THEN s ELSE Append(s, x)

(***************************************************************************)
(* InMemoryMultiKeyStore                                                   *)
(***************************************************************************)
setKey_noNetworkCheck(st, networkID_, accountID, keyPair) ==
    LET keyPairs == IF MapHas(st, accountID) THEN MapGet(st, accountID) ELSE <<>>
    IN  MapSet(st, accountID, SetAdd(keyPairs, keyPair))

setKey(st, networkID_, accountID, keyPair) ==
    IF networkID_ # networkID
    THEN st
    ELSE LET keyPairs == IF MapHas(st, accountID) THEN MapGet(st, accountID) ELSE <<>>
         IN  MapSet(st, accountID, SetAdd(keyPairs, keyPair))

getKey_firstKey(st, counter, networkID_, accountID) ==
    IF networkID_ # networkID
    THEN None
    ELSE LET keyPairs == IF MapHas(st, accountID) THEN MapGet(st, accountID) ELSE <<>>
         IN  IF Len(keyPairs) = 0 THEN None ELSE keyPairs[1]

getKey_noNetworkCheck(st, counter, networkID_, accountID) ==
    LET keyPairs == IF MapHas(st, accountID) THEN MapGet(st, accountID) ELSE <<>>
    IN  IF Len(keyPairs) = 0
        THEN None
        ELSE keyPairs[(counter % Len(keyPairs)) + 1]

getKey(st, counter, networkID_, accountID) ==
    IF networkID_ # networkID
    THEN None
    ELSE LET keyPairs == IF MapHas(st, accountID) THEN MapGet(st, accountID) ELSE <<>>
         IN  IF Len(keyPairs) = 0
             THEN None
             ELSE LET keyIndex == counter % Len(keyPairs)
                  IN  keyPairs[keyIndex + 1]

removeKey_noNetworkCheck(st, networkID_, accountID) == MapDelete(st, accountID)

removeKey(st, networkID_, accountID) ==
    IF networkID_ # networkID THEN st ELSE MapDelete(st, accountID)

clear(st) == <<>>

getAccounts(st, networkID_) ==
    IF networkID_ # networkID THEN <<>> ELSE MapKeys(st)

reKey_twice(counter) == counter + 2

reKey(counter) == counter + 1

Returned(op, n, a, v) == [op |-> op, net |-> n, acct |-> a, val |-> v]

NoLog == [a \in AccountIDs |-> <<>>]

SetKey(n, a, kp) ==
    /\ store' = setKey(store, n, a, kp)
    /\ ret' = Returned("setKey", n, a, None)
    /\ rotLog' = NoLog
    /\ UNCHANGED <<networkID, reKeyCounter, lower, reKeys, engineVars>>

GetKey(n, a) ==
    /\ ret' = Returned("getKey", n, a, getKey(store, reKeyCounter, n, a))
    /\ UNCHANGED <<networkID, reKeyCounter, store, lower, rotLog, reKeys, engineVars>>

RemoveKey(n, a) ==
    /\ store' = removeKey(store, n, a)
    /\ ret' = Returned("removeKey", n, a, None)
    /\ rotLog' = NoLog
    /\ UNCHANGED <<networkID, reKeyCounter, lower, reKeys, engineVars>>

\* clear() has no parameter: an argument a caller passes is ignored
Clear(n) ==
    /\ store' = clear(store)
    /\ ret' = Returned("clear", n, <<>>, None)
    /\ rotLog' = NoLog
    /\ UNCHANGED <<networkID, reKeyCounter, lower, reKeys, engineVars>>

GetAccounts(n) ==
    /\ ret' = Returned("getAccounts", n, <<>>, getAccounts(store, n))
    /\ UNCHANGED <<networkID, reKeyCounter, store, lower, rotLog, reKeys, engineVars>>

ReKey ==
    /\ reKeyCounter < MaxReKey
    /\ reKeyCounter' = reKey(reKeyCounter)
    /\ reKeys' = reKeys + 1
    /\ ret' = Returned("reKey", None, <<>>, None)
    /\ rotLog' = [a \in AccountIDs |->
                    Append(rotLog[a], getKey(store, reKeyCounter', networkID, a))]
    /\ UNCHANGED <<networkID, store, lower, engineVars>>

(***************************************************************************)
(* KeyStore: the merge of the in-memory store with the other key sources.  *)
(***************************************************************************)
\* s < t for strings, by UTF-16 code units (the default order of Array.prototype.sort)
RECURSIVE StrLess(_, _)
StrLess(s, t) ==
    IF Len(t) = 0 THEN FALSE
    ELSE IF Len(s) = 0 THEN TRUE
    ELSE IF s[1] # t[1] THEN s[1] < t[1]
    ELSE StrLess(Tail(s), Tail(t))

\* [...new Set(xs)]: the first occurrence of each element, in order
RECURSIVE Dedup(_)
Dedup(xs) ==
    IF Len(xs) = 0 THEN <<>>
    ELSE LET front == Dedup(SubSeq(xs, 1, Len(xs) - 1))
         IN  SetAdd(front, xs[Len(xs)])

Insert(sorted, x) ==
    LET before == SelectSeq(sorted, LAMBDA y : ~StrLess(x, y))
        after == SelectSeq(sorted, LAMBDA y : StrLess(x, y))
    IN  before \o <<x>> \o after

\* Array.prototype.sort() without a comparator
RECURSIVE Sort(_)
Sort(xs) ==
    IF Len(xs) = 0 THEN <<>>
    ELSE Insert(Sort(SubSeq(xs, 1, Len(xs) - 1)), xs[Len(xs)])

RECURSIVE Concat(_)
Concat(ss) == IF Len(ss) = 0 THEN <<>> ELSE ss[1] \o Concat(Tail(ss))

\* super.getAccounts(networkID): the accounts of every source, in priority order
MergeKeyStore_getAccounts(networkID_) ==
    getAccounts(store, networkID_) \o Concat(lower)

KeyStore_getAccounts_unsorted == Dedup(MergeKeyStore_getAccounts(networkID))

KeyStore_getAccounts_noDedup == Sort(MergeKeyStore_getAccounts(networkID))

KeyStore_getAccounts == Sort(Dedup(MergeKeyStore_getAccounts(networkID)))

KeyStoreGetAccounts ==
    /\ ret' = Returned("KeyStore.getAccounts", networkID, <<>>, KeyStore_getAccounts)
    /\ UNCHANGED <<networkID, reKeyCounter, store, lower, rotLog, reKeys, engineVars>>

\* the one key a lower source holds for each of its accounts: the local
\* validator key, the key of the credentials directory
LowerKeyPairs == <<"dev", "cli">>

\* the lower sources from the i-th on, in priority order: the first key found
RECURSIVE LowerGetKey(_, _)
LowerGetKey(i, accountID) ==
    IF i > Len(lower) THEN None
    ELSE IF accountID \in Range(lower[i]) THEN LowerKeyPairs[i]
    ELSE LowerGetKey(i + 1, accountID)

\* super.getKey(networkID, accountID): the first source that returns a key
MergeKeyStore_getKey(counter, networkID_, accountID) ==
    LET keyPair == getKey(store, counter, networkID_, accountID)
    IN  IF keyPair # None THEN keyPair
        ELSE IF networkID_ = networkID THEN LowerGetKey(1, accountID)
        ELSE None

\* a key file: readable with an account and a key, or not
KeyFile(ok, accountID, keyPair) == [ok |-> ok, account |-> accountID, keyPair |-> keyPair]
BadFile == KeyFile(FALSE, <<>>, None)
KeyFiles == {BadFile} \cup {KeyFile(TRUE, a, kp) : a \in AccountIDs, kp \in {"k1", "k2"}}

loadKeyFile_replacing(st, file) ==
    IF ~file.ok THEN st ELSE MapSet(st, file.account, <<file.keyPair>>)

\* loadKeyFile: this.keyStores[0].setKey(this.networkID, accountID, keyPair),
\* unless _loadKeyFile throws
loadKeyFile(st, file) ==
    IF ~file.ok THEN st ELSE setKey(st, networkID, file.account, file.keyPair)

\* loadKeyFiles: file after file, up to the first one _loadKeyFile throws on
RECURSIVE loadKeyFiles(_, _)
loadKeyFiles(st, files) ==
    IF Len(files) = 0 \/ ~files[1].ok THEN st
    ELSE loadKeyFiles(loadKeyFile(st, files[1]), Tail(files))

LoadKeyFile(file) ==
    /\ store' = loadKeyFile(store, file)
    /\ ret' = Returned("loadKeyFile", networkID, <<>>, <<file>>)
    /\ rotLog' = NoLog
    /\ UNCHANGED <<networkID, reKeyCounter, lower, reKeys, engineVars>>

LoadKeyFiles(files) ==
    /\ store' = loadKeyFiles(store, files)
    /\ ret' = Returned("loadKeyFiles", networkID, <<>>, files)
    /\ rotLog' = NoLog
    /\ UNCHANGED <<networkID, reKeyCounter, lower, reKeys, engineVars>>

KeyStoreGetKey(a) ==
    /\ ret' = Returned("KeyStore.getKey", networkID, a,
                       MergeKeyStore_getKey(reKeyCounter, networkID, a))
    /\ UNCHANGED <<networkID, reKeyCounter, store, lower, rotLog, reKeys, engineVars>>

(***************************************************************************)
(* Engine: arguments and backend responses.                                *)
(***************************************************************************)
Procs == {"p1", "p2"}

\* Engine.signer: the account whose key signs the mutating calls
signerID == AcctA

\* the intrinsic gas of a transaction
INTRINSIC_GAS == 21000

\* an input argument (Uint8Array | string): its form, and for submit whether
\* its bytes parse as a raw transaction and the gas limit they carry
Forms == {"bytes", "hexString", "badString"}
GasLimits == {20000, 20999, 21000}
Arg(form, parses, gasLimit) == [form |-> form, parses |-> parses, gasLimit |-> gasLimit]
NoArg == Arg("bytes", FALSE, 0)
PlainArgs == {Arg(f, FALSE, 0) : f \in Forms}
SubmitArgs == PlainArgs \cup {Arg(f, TRUE, g) : f \in {"bytes", "hexString"}, g \in GasLimits}

\* what signer.functionCall settles with
PANIC == "Smart contract panicked: "
FcOutcome(settle, success, txid, output, type, kind) ==
    [settle |-> settle, success |-> success, txid |-> txid, output |-> output,
     type |-> type, kind |-> kind]
NoFc == FcOutcome("none", FALSE, None, None, None, <<>>)
FcResolved ==
    {FcOutcome("resolve", TRUE, t, o, None, <<>>) : t \in {"tx1", None}, o \in {"decodable", "garbage"}}
    \cup {FcOutcome("resolve", TRUE, "tx2", "decodable", None, <<>>)}
    \cup {FcOutcome("resolve", FALSE, "tx1", None, None, <<>>)}
FcRejected ==
    {FcOutcome("reject", FALSE, t, None, "FunctionCallError", k) :
        t \in {"tx1", None}, k \in {<<PANIC, "ERR_X">>, <<"ERR_X">>, <<>>}}
    \cup {FcOutcome("reject", FALSE, t, None, type, <<>>) :
            t \in {"tx1", None}, type \in {"MethodNotFound", "Other"}}
FcOutcomes == FcResolved \cup FcRejected

\* what provider.txStatus settles with: a failure, or the receipts' gas_burnt
\* and the transaction outcome's gas_burnt (<<>> when the field is missing)
ReceiptGas == {10, 20}
TxGas == {<<>>, <<0>>, <<5>>}
TxStatus(ok, receipts, txGas) == [ok |-> ok, receipts |-> receipts, txGas |-> txGas]
NoTxStatus == TxStatus(FALSE, <<>>, <<>>)
ReceiptSeqs == UNION {[1..n -> ReceiptGas] : n \in 0..MaxReceipts}
TxStatuses == {NoTxStatus} \cup {TxStatus(TRUE, r, g) : r \in ReceiptSeqs, g \in TxGas}

\* a Result: Ok, Err, or an exception thrown out of the method
Result(kind, msg, tx, gasBurned, details) ==
    [kind |-> kind, msg |-> msg, tx |-> tx, gasBurned |-> gasBurned, details |-> details]
NoResult == Result("none", <<>>, None, 0, FALSE)
Ok(tx, gasBurned) == Result("Ok", <<>>, tx, gasBurned, FALSE)
Err(msg) == Result("Err", msg, None, 0, FALSE)
Throw(msg) == Result("Throw", msg, None, 0, FALSE)

MutativeOps == {"call", "submit", "deployCode", "initialize"}
ViewOps == {"view", "getBalance", "getNonce", "getStorageAt", "getCode", "getVersion"}

\* JavaScript values a block selector can be: undefined, null, a number
\* (block height) or a string (block tag or hash)
Undefined == [t |-> "undefined", n |-> 0, s |-> <<>>]
Null == [t |-> "null", n |-> 0, s |-> <<>>]
Num(n) == [t |-> "number", n |-> n, s |-> <<>>]
Str(s) == [t |-> "string", n |-> 0, s |-> s]
Blocks == {Undefined, Null, Num(0), Num(5), Str(<<"latest">>)}

\* the options argument: omitted, null, or an object with a block property
NoOptions == [t |-> "undefined", block |-> Undefined]
NullOptions == [t |-> "null", block |-> Undefined]
ViewOptions(block) == [t |-> "object", block |-> block]
OptionsArgs == {NoOptions, NullOptions} \cup {ViewOptions(b) : b \in Blocks}

\* the fields of the provider.query request that select the state to read
Request(finality, block_id) == [finality |-> finality, block_id |-> block_id]
NoRequest == Request(None, Undefined)

IdleCall ==
    [op |-> "none", pc |-> "idle", method |-> None, arg |-> NoArg, ctr0 |-> 0,
     keyCtr |-> 0, key |-> None, nBackend |-> 0, nFunctionCall |-> 0, nTxStatus |-> 0,
     fc |-> NoFc, status |-> NoTxStatus, outcome |-> NoResult, result |-> NoResult,
     given |-> NoOptions, options |-> NoOptions, req |-> NoRequest,
     original |-> NoOptions, repeat |-> 0, prevReq |-> NoRequest, signed |-> <<>>,
     chunks |-> <<>>, requests |-> <<>>, count |-> 0,
     entry |-> 0, firstOutcome |-> NoResult]

(***************************************************************************)
(* Engine: the gas accountant.                                             *)
(***************************************************************************)
\* receipts_outcome.reduce((sum, value) => sum + value.outcome.gas_burnt, 0)
RECURSIVE reduce(_, _)
reduce(receipts, sum) ==
    IF Len(receipts) = 0 THEN sum ELSE reduce(Tail(receipts), sum + receipts[1])

\* gas_burnt || 0
OrZero(g) == IF Len(g) = 0 THEN 0 ELSE g[1]

transactionGasBurned_receiptsOnly(id, status) ==
    IF id = None \/ ~status.ok THEN 0 ELSE reduce(status.receipts, 0)

transactionGasBurned(id, status) ==
    IF id = None
    THEN 0      \* base58ToBytes(undefined) throws
    ELSE IF ~status.ok
    THEN 0
    ELSE LET receiptsGasBurned == reduce(status.receipts, 0)
             transactionGasBurned_ == OrZero(status.txGas)
         IN  receiptsGasBurned + transactionGasBurned_

(***************************************************************************)
(* Engine: mutating calls.                                                 *)
(***************************************************************************)
\* prepareInput throws on a string that is not hexadecimal (parseHexString)
prepareInputThrows(arg) == arg.form = "badString"

\* submit, up to the point where it forwards to callMutativeFunction:
\* the Result it returns early, or NoResult when it forwards
submit_noGasCheck(arg) ==
    IF prepareInputThrows(arg) THEN Err(<<"error.message">>)
    ELSE IF ~arg.parses THEN Err(<<"ERR_INVALID_TX">>)
    ELSE NoResult

submit(arg) ==
    IF prepareInputThrows(arg)
    THEN Err(<<"error.message">>)           \* the outer catch
    ELSE IF ~arg.parses
    THEN Err(<<"ERR_INVALID_TX">>)          \* parseRawTransaction throws
    ELSE IF arg.gasLimit < INTRINSIC_GAS
    THEN Err(<<"ERR_INTRINSIC_GAS">>)
    ELSE NoResult

\* KeyStore.reKey: this.keyStore.reKey()
KeyStore_reKey_forgotten(counter) == counter

KeyStore_reKey(counter) == reKey(counter)

KeyStore_getKey_halfCounter(networkID_, accountID) ==
    MergeKeyStore_getKey(reKeyCounter \div 2, networkID_, accountID)

\* KeyStore.getKey: the first source that has a key (the in-memory store is first)
KeyStore_getKey(networkID_, accountID) ==
    MergeKeyStore_getKey(reKeyCounter, networkID_, accountID)

\* errorKind.replace('Smart contract panicked: ', ''): the first occurrence goes
RECURSIVE replace(_, _)
replace(str, pattern) ==
    IF Len(str) = 0 THEN <<>>
    ELSE IF str[1] = pattern THEN Tail(str)
    ELSE <<str[1]>> \o replace(Tail(str), pattern)

\* `${message}|${JSON.stringify(details)}`
errorWithDetails(message, tx, gasBurned) ==
    Result("Err", message, tx, gasBurned, TRUE)

awaitsGasBurned_successOnly(fc) ==
    fc.settle = "resolve" /\ fc.success

\* whether callMutativeFunction asks for the gas burned once functionCall has settled as fc
awaitsGasBurned(fc) ==
    \/ fc.settle = "resolve" /\ fc.success
    \/ fc.settle = "reject" /\ fc.type = "FunctionCallError"

callMutativeFunction_needsTxRef(fc, gasBurned) ==
    IF fc.settle = "resolve"
    THEN IF fc.success /\ fc.txid # None
         THEN Ok(fc.txid, gasBurned)
         ELSE Err(<<"result.toString()">>)
    ELSE IF fc.type = "FunctionCallError"
    THEN IF Len(fc.kind) > 0
         THEN errorWithDetails(replace(fc.kind, PANIC), fc.txid, gasBurned)
         ELSE errorWithDetails(<<"error.message">>, fc.txid, gasBurned)
    ELSE IF fc.type = "MethodNotFound"
    THEN Err(<<"error.message">>)
    ELSE Err(<<"error.toString()">>)

callMutativeFunction_noSuccessCheck(fc, gasBurned) ==
    IF fc.settle = "resolve"
    THEN Ok(fc.txid, gasBurned)
    ELSE IF fc.type = "FunctionCallError"
    THEN IF Len(fc.kind) > 0
         THEN errorWithDetails(replace(fc.kind, PANIC), fc.txid, gasBurned)
         ELSE errorWithDetails(<<"error.message">>, fc.txid, gasBurned)
    ELSE IF fc.type = "MethodNotFound"
    THEN Err(<<"error.message">>)
    ELSE Err(<<"error.toString()">>)

callMutativeFunction_noStrip(fc, gasBurned) ==
    IF fc.settle = "resolve"
    THEN IF fc.success
         THEN Ok(fc.txid, gasBurned)
         ELSE Err(<<"result.toString()">>)
    ELSE IF fc.type = "FunctionCallError"
    THEN IF Len(fc.kind) > 0
         THEN errorWithDetails(fc.kind, fc.txid, gasBurned)
         ELSE errorWithDetails(<<"error.message">>, fc.txid, gasBurned)
    ELSE IF fc.type = "MethodNotFound"
    THEN Err(<<"error.message">>)
    ELSE Err(<<"error.toString()">>)

callMutativeFunction_notFoundWithDetails(fc, gasBurned) ==
    IF fc.settle = "resolve"
    THEN IF fc.success
         THEN Ok(fc.txid, gasBurned)
         ELSE Err(<<"result.toString()">>)
    ELSE IF fc.type = "FunctionCallError"
    THEN IF Len(fc.kind) > 0
         THEN errorWithDetails(replace(fc.kind, PANIC), fc.txid, gasBurned)
         ELSE errorWithDetails(<<"error.message">>, fc.txid, gasBurned)
    ELSE IF fc.type = "MethodNotFound"
    THEN errorWithDetails(<<"error.message">>, fc.txid, gasBurned)
    ELSE Err(<<"error.toString()">>)

\* what callMutativeFunction returns once functionCall has settled as fc
callMutativeFunction(fc, gasBurned) ==
    IF fc.settle = "resolve"
    THEN IF fc.success
         THEN Ok(fc.txid, gasBurned)
         ELSE Err(<<"result.toString()">>)
    ELSE IF fc.type = "FunctionCallError"
    THEN IF Len(fc.kind) > 0
         THEN errorWithDetails(replace(fc.kind, PANIC), fc.txid, gasBurned)
         ELSE errorWithDetails(<<"error.message">>, fc.txid, gasBurned)
    ELSE IF fc.type = "MethodNotFound"
    THEN Err(<<"error.message">>)
    ELSE Err(<<"error.toString()">>)

\* what the public method makes of callMutativeFunction's result r
finish(op, fc, r) ==
    IF r.kind # "Ok" THEN r
    ELSE IF op = "submit" /\ fc.output = "garbage"
    THEN Err(<<"error.message">>)           \* SubmitResult.decode throws, caught
    ELSE IF op = "deployCode" /\ fc.output = "garbage"
    THEN Throw(<<"error.message">>)         \* SubmitResult.decode throws
    ELSE r

\* the synchronous start of callMutativeFunction: reKey, then signer.functionCall is awaited
Enter(p, op, methodName, arg) ==
    /\ reKeyCounter < MaxReKey
    /\ reKeyCounter' = KeyStore_reKey(reKeyCounter)
    /\ reKeys' = reKeys + 1
    /\ calls' = [calls EXCEPT ![p] =
            [@ EXCEPT !.op = op, !.pc = "functionCall", !.method = methodName, !.arg = arg,
                      !.ctr0 = reKeyCounter, !.key = None, !.fc = NoFc,
                      !.status = NoTxStatus, !.outcome = NoResult, !.nTxStatus = 0,
                      !.nBackend = @ + 1, !.nFunctionCall = @ + 1,
                      !.entry = IF calls[p].pc = "andThen" THEN @ ELSE reKeyCounter,
                      !.firstOutcome = IF calls[p].pc = "andThen" THEN calls[p].outcome
                                       ELSE NoResult]]

Finished(p, op, arg, r) ==
    calls' = [calls EXCEPT ![p] = [@ EXCEPT !.op = op, !.arg = arg, !.pc = "done", !.result = r]]

Call(p, arg) ==
    /\ calls[p].pc = "idle"
    /\ IF prepareInputThrows(arg)
       THEN Finished(p, "call", arg, Throw(<<"error.message">>)) /\ UNCHANGED <<reKeyCounter, reKeys>>
       ELSE Enter(p, "call", "call", arg)
    /\ UNCHANGED <<networkID, store, lower, ret, rotLog, records, engineStorage>>

Submit(p, arg) ==
    /\ calls[p].pc = "idle"
    /\ IF submit(arg) # NoResult
       THEN Finished(p, "submit", arg, submit(arg)) /\ UNCHANGED <<reKeyCounter, reKeys>>
       ELSE Enter(p, "submit", "submit", arg)
    /\ UNCHANGED <<networkID, store, lower, ret, rotLog, records, engineStorage>>

DeployCode(p, arg) ==
    /\ calls[p].pc = "idle"
    /\ IF prepareInputThrows(arg)
       THEN Finished(p, "deployCode", arg, Throw(<<"error.message">>)) /\ UNCHANGED <<reKeyCounter, reKeys>>
       ELSE Enter(p, "deployCode", "deploy_code", arg)
    /\ UNCHANGED <<networkID, store, lower, ret, rotLog, records, engineStorage>>

Initialize(p) ==
    /\ calls[p].pc = "idle"
    /\ Enter(p, "initialize", "new", NoArg)
    /\ UNCHANGED <<networkID, store, lower, ret, rotLog, records, engineStorage>>

SignerLookup_counterOnEntry(p) ==
    /\ calls[p].pc = "functionCall"
    /\ calls' = [calls EXCEPT ![p] =
            [@ EXCEPT !.pc = "signed", !.keyCtr = reKeyCounter,
                      !.key = getKey(store, calls[p].ctr0 + 1, networkID, signerID),
                      !.signed = Append(@, getKey(store, calls[p].ctr0 + 1, networkID, signerID))]]
    /\ UNCHANGED <<storeVars, records, engineStorage>>

\* inside signer.functionCall: the signer's key is fetched from the key store
SignerLookup(p) ==
    /\ calls[p].pc = "functionCall"
    /\ calls' = [calls EXCEPT ![p] =
            [@ EXCEPT !.pc = "signed", !.keyCtr = reKeyCounter,
                      !.key = KeyStore_getKey(networkID, signerID),
                      !.signed = Append(@, KeyStore_getKey(networkID, signerID))]]
    /\ UNCHANGED <<storeVars, records, engineStorage>>

Complete_alwaysAndThen(p, fc, status, r) ==
    IF calls[p].op = "initialize" /\ calls[p].method = "new"
    THEN calls' = [calls EXCEPT ![p] =
            [@ EXCEPT !.pc = "andThen", !.fc = fc, !.status = status, !.outcome = r]]
    ELSE calls' = [calls EXCEPT ![p] =
            [@ EXCEPT !.pc = "done", !.fc = fc, !.status = status, !.outcome = r,
                      !.result = finish(calls[p].op, fc, r)]]

\* callMutativeFunction has its result r
Complete(p, fc, status, r) ==
    IF calls[p].op = "initialize" /\ calls[p].method = "new" /\ r.kind = "Ok"
    THEN calls' = [calls EXCEPT ![p] =
            [@ EXCEPT !.pc = "andThen", !.fc = fc, !.status = status, !.outcome = r]]
    ELSE calls' = [calls EXCEPT ![p] =
            [@ EXCEPT !.pc = "done", !.fc = fc, !.status = status, !.outcome = r,
                      !.result = finish(calls[p].op, fc, r)]]

\* signer.functionCall settles; without a key to sign with it can only fail
FunctionCallSettle(p, fc) ==
    /\ calls[p].pc = "signed"
    /\ calls[p].key = None => fc.settle = "reject" /\ fc.type = "Other"
    /\ IF awaitsGasBurned(fc) /\ fc.txid # None
       THEN calls' = [calls EXCEPT ![p] =
                [@ EXCEPT !.pc = "txStatus", !.fc = fc, !.nBackend = @ + 1, !.nTxStatus = @ + 1]]
       ELSE Complete(p, fc, NoTxStatus,
                     callMutativeFunction(fc, transactionGasBurned(fc.txid, NoTxStatus)))
    /\ UNCHANGED <<storeVars, records, engineStorage>>

\* provider.txStatus settles
TxStatusSettle(p, status) ==
    /\ calls[p].pc = "txStatus"
    /\ Complete(p, calls[p].fc, status,
                callMutativeFunction(calls[p].fc, transactionGasBurned(calls[p].fc.txid, status)))
    /\ UNCHANGED <<storeVars, records, engineStorage>>

\* promiseAndThen: 'new' returned Ok, 'new_eth_connector' follows
InitializeAndThen(p) ==
    /\ calls[p].pc = "andThen"
    /\ Enter(p, "initialize", "new_eth_connector", NoArg)
    /\ UNCHANGED <<networkID, store, lower, ret, rotLog, records, engineStorage>>

\* the caller has the result; it may call again
Return(p) ==
    /\ calls[p].pc = "done"
    /\ calls' = [calls EXCEPT ![p] = [IdleCall EXCEPT !.signed = calls[p].signed]]
    /\ UNCHANGED <<storeVars, records, engineStorage>>

(***************************************************************************)
(* Engine: view calls.                                                     *)
(***************************************************************************)
\* options?.block
OptionalBlock(options) == IF options.t = "object" THEN options.block ELSE Undefined

Nullish(v) == v.t \in {"undefined", "null"}

\* the truthiness of a block selector
Truthy(v) == (v.t = "number" /\ v.n # 0) \/ (v.t = "string" /\ v.s # <<>>)

\* v + 1: addition for a number, concatenation for a string
PlusOne(v) == IF v.t = "number" THEN Num(v.n + 1) ELSE Str(v.s \o <<"1">>)

\* getCode reads options.block when typeof options === 'object', which null is
getCodeThrows(options) == options.t = "null"

\* the options object after getCode has adjusted it
getCode(options) ==
    IF options.t = "object" /\ Truthy(options.block)
    THEN ViewOptions(PlusOne(options.block))
    ELSE options

request_falsyIsNone(options) ==
    Request(IF ~Truthy(OptionalBlock(options)) THEN "final" ELSE None,
            IF Truthy(OptionalBlock(options)) THEN options.block ELSE Undefined)

\* finality and block_id of the request callFunction sends
request(options) ==
    Request(IF Nullish(OptionalBlock(options)) THEN "final" ELSE None,
            IF ~Nullish(OptionalBlock(options)) THEN options.block ELSE Undefined)

\* a view method up to callFunction's provider.query, called with the object
\* options; the caller made the object as original and has passed it to
\* repeat earlier calls, the last of which sent prevReq
ViewStart(p, op, arg, options, original, repeat, prevReq) ==
    IF (op = "view" /\ prepareInputThrows(arg)) \/ (op = "getCode" /\ getCodeThrows(options))
    THEN calls' = [calls EXCEPT ![p] =
            [@ EXCEPT !.op = op, !.arg = arg, !.pc = "done", !.nBackend = 0,
                      !.given = options, !.options = options, !.req = NoRequest,
                      !.original = original, !.repeat = repeat, !.prevReq = prevReq,
                      !.result = Throw(<<"error.message">>)]]
    ELSE LET passed == IF op = "getCode" THEN getCode(options) ELSE options
         IN  calls' = [calls EXCEPT ![p] =
                [@ EXCEPT !.op = op, !.arg = arg, !.pc = "query", !.nBackend = 1,
                          !.given = options, !.options = passed, !.req = request(passed),
                          !.original = original, !.repeat = repeat, !.prevReq = prevReq,
                          !.result = NoResult]]

\* a view method called with a new options object (or none)
ViewCall(p, op, arg, options) ==
    /\ calls[p].pc = "idle"
    /\ op = "view" \/ arg = NoArg
    /\ ViewStart(p, op, arg, options, options, 0, NoRequest)
    /\ UNCHANGED <<storeVars, records, engineStorage>>

\* the caller has a view method's result and calls a view method again,
\* passing the options object it passed before
ViewCallAgain(p, op, arg) ==
    /\ calls[p].pc = "done"
    /\ calls[p].op \in ViewOps
    /\ calls[p].repeat < MaxRepeat
    /\ op = "view" \/ arg = NoArg
    /\ ViewStart(p, op, arg, calls[p].options, calls[p].original, calls[p].repeat + 1,
                 calls[p].req)
    /\ UNCHANGED <<storeVars, records, engineStorage>>

\* provider.query settles: a rejection is not caught; view decodes the output
callFunction(op, ok, output) ==
    IF ~ok THEN Throw(<<"query error">>)
    ELSE IF op = "view" /\ output = "garbage" THEN Throw(<<"error.message">>)
    ELSE Ok(None, 0)

QuerySettle(p, ok, output) ==
    /\ calls[p].pc = "query"
    /\ calls' = [calls EXCEPT ![p] =
            [@ EXCEPT !.pc = "done", !.result = callFunction(calls[p].op, ok, output)]]
    /\ UNCHANGED <<storeVars, records, engineStorage>>

(***************************************************************************)
(* Engine: the state demultiplexer.                                        *)
(***************************************************************************)
\* EngineStorageKeyPrefix
Config == 0
Nonce == 1
Balance == 2
Code == 3
Storage == 4

Bytes(n, b) == [i \in 1..n |-> b]
\* 20-byte addresses
AddrA == Bytes(20, 170)
AddrB == Bytes(20, 187)
Addresses == {AddrA, AddrB}
\* 32-byte storage slot keys
Slot1 == Bytes(31, 0) \o <<1>>
Slot2 == Bytes(31, 0) \o <<2>>
Slots == {Slot1, Slot2}

Record(key, value) == [key |-> key, value |-> value]
RecordUniverse ==
    {Record(<<Config>> \o AddrA, <<5>>)}
    \cup {Record(<<Nonce>> \o a, v) : a \in Addresses, v \in {<<5>>, <<0, 7>>}}
    \cup {Record(<<Balance>> \o a, v) : a \in Addresses, v \in {<<0, 100>>, <<5>>}}
    \cup {Record(<<Code>> \o a, v) : a \in Addresses, v \in {<<0, 100>>, <<96>>}}
    \cup {Record(<<Storage>> \o a \o k, v) : a \in Addresses, k \in Slots, v \in {<<7>>, <<0, 100>>}}
RecordSeqs == UNION {[1..n -> RecordUniverse] : n \in 0..MaxRecords}

\* toBigIntBE: the bytes as a big-endian unsigned integer
RECURSIVE toBigIntBE_upTo(_, _)
toBigIntBE_upTo(bytes, n) ==
    IF n = 0 THEN 0 ELSE toBigIntBE_upTo(bytes, n - 1) * 256 + bytes[n]

toBigIntBE(bytes) == toBigIntBE_upTo(bytes, Len(bytes))

\* Buffer.toString('hex'): two hexadecimal digits per byte
toHex(bytes) ==
    [i \in 1..(2 * Len(bytes)) |->
        IF i % 2 = 1 THEN bytes[(i + 1) \div 2] \div 16 ELSE bytes[i \div 2] % 16]

\* new AddressState(address)
AddressState(address) ==
    [address |-> address, nonce |-> 0, balance |-> 0, code |-> <<>>, storage |-> <<>>]

\* Map.set
Put(m, k, v) == [x \in DOMAIN m \cup {k} |-> IF x = k THEN v ELSE m[x]]

\* the body of getStorage's loop
demux_wholeKeyAsAddress(result, record) ==
    LET record_type == record.key[1]
    IN  IF record_type = Config THEN result
        ELSE LET key == SubSeq(record.key, 2, Len(record.key))
                 address == toHex(key)
                 result1 == IF address \in DOMAIN result
                            THEN result
                            ELSE Put(result, address, AddressState(address))
                 state == result1[address]
                 state1 ==
                    CASE record_type = Nonce -> [state EXCEPT !.nonce = toBigIntBE(record.value)]
                      [] record_type = Balance -> [state EXCEPT !.balance = toBigIntBE(record.value)]
                      [] record_type = Code -> [state EXCEPT !.code = <<record.value>>]
                      [] record_type = Storage ->
                            [state EXCEPT !.storage =
                                Put(@, toBigIntBE(SubSeq(record.key, 22, Len(record.key))),
                                    toBigIntBE(record.value))]
                      [] OTHER -> state
             IN  Put(result1, address, state1)

demux(result, record) ==
    LET record_type == record.key[1]
    IN  IF record_type = Config THEN result
        ELSE LET key == IF record_type = Storage
                        THEN SubSeq(record.key, 2, 21)
                        ELSE SubSeq(record.key, 2, Len(record.key))
                 address == toHex(key)
                 result1 == IF address \in DOMAIN result
                            THEN result
                            ELSE Put(result, address, AddressState(address))
                 state == result1[address]
                 state1 ==
                    CASE record_type = Nonce -> [state EXCEPT !.nonce = toBigIntBE(record.value)]
                      [] record_type = Balance -> [state EXCEPT !.balance = toBigIntBE(record.value)]
                      [] record_type = Code -> [state EXCEPT !.code = <<record.value>>]
                      [] record_type = Storage ->
                            [state EXCEPT !.storage =
                                Put(@, toBigIntBE(SubSeq(record.key, 22, Len(record.key))),
                                    toBigIntBE(record.value))]
                      [] OTHER -> state
             IN  Put(result1, address, state1)

\* the loop of getStorage over the first n records
RECURSIVE getStorage_upTo(_, _)
getStorage_upTo(recs, n) ==
    IF n = 0 THEN <<>> ELSE demux(getStorage_upTo(recs, n - 1), recs[n])

getStorage(recs) == getStorage_upTo(recs, Len(recs))

GetStorage(p) ==
    /\ calls[p].pc = "idle"
    /\ calls' = [calls EXCEPT ![p] =
            [@ EXCEPT !.op = "getStorage", !.pc = "viewState", !.nBackend = @ + 1]]
    /\ records' = <<>>
    /\ engineStorage' = <<>>
    /\ UNCHANGED storeVars

\* contractAccount.viewState settles: a rejection is not caught
ViewStateFails(p) ==
    /\ calls[p].pc = "viewState"
    /\ calls' = [calls EXCEPT ![p] = [@ EXCEPT !.pc = "done", !.result = Throw(<<"viewState error">>)]]
    /\ UNCHANGED <<storeVars, records, engineStorage>>

\* ... or with one of the scans the backend may answer with
ViewStateSettle(p, scans) ==
    /\ calls[p].pc = "viewState"
    /\ \E recs \in scans :
        /\ records' = recs
        /\ engineStorage' = getStorage(recs)
    /\ calls' = [calls EXCEPT ![p] = [@ EXCEPT !.pc = "done", !.result = Ok(None, 0)]]
    /\ UNCHANGED storeVars

(***************************************************************************)
(* Specifications.                                                         *)
(***************************************************************************)
NothingReturned == Returned("none", None, <<>>, None)

EngineIdle ==
    /\ calls = [p \in Procs |-> IdleCall]
    /\ records = <<>>
    /\ engineStorage = <<>>

\* what the other sources of the merge hold: the local validator key store
\* (at most one account) and the credentials directory
LowerSources ==
    {<<>>, <<<<AcctB>>, <<AcctAB, AcctA>>>>, <<<<>>, <<AcctB, AcctA>>>>, <<<<AcctAB>>, <<AcctAB>>>>}

\* the key store on its own: new InMemoryMultiKeyStore(networkID), inside KeyStore.load
StoreInit ==
    /\ networkID \in Networks
    /\ reKeyCounter = 0
    /\ store = <<>>
    /\ lower = <<>>
    /\ ret = NothingReturned
    /\ rotLog = NoLog
    /\ reKeys = 0
    /\ EngineIdle

StoreNext ==
    \/ \E n \in Networks, a \in AccountIDs, kp \in KeyPairs : SetKey(n, a, kp)
    \/ \E n \in Networks, a \in AccountIDs : GetKey(n, a)
    \/ \E n \in Networks, a \in AccountIDs : RemoveKey(n, a)
    \/ \E n \in Networks : Clear(n)
    \/ \E n \in Networks : GetAccounts(n)
    \/ ReKey

SpecStore == StoreInit /\ [][StoreNext]_vars

\* the merged key store and its listing of accounts
MergeInit ==
    /\ networkID \in Networks
    /\ reKeyCounter = 0
    /\ store = <<>>
    /\ lower \in LowerSources
    /\ ret = NothingReturned
    /\ rotLog = NoLog
    /\ reKeys = 0
    /\ EngineIdle

MergeNext ==
    \/ \E n \in Networks, a \in AccountIDs, kp \in KeyPairs : SetKey(n, a, kp)
    \/ \E n \in Networks, a \in AccountIDs : RemoveKey(n, a)
    \/ \E n \in Networks : Clear(n)
    \/ KeyStoreGetAccounts
    \/ \E file \in KeyFiles : LoadKeyFile(file)
    \/ \E f1 \in KeyFiles, f2 \in {BadFile, KeyFile(TRUE, AcctA, "k1"), KeyFile(TRUE, AcctB, "k2")} :
           LoadKeyFiles(<<f1, f2>>)
    \/ \E a \in AllAccountIDs : KeyStoreGetKey(a)

SpecMerge == MergeInit /\ [][MergeNext]_vars

(***************************************************************************)
(* Engine: the transactions of a block.                                    *)
(***************************************************************************)
\* a chunk header of the block: whether chunk_mask has it, its tx_root, and
\* how many transactions provider.chunk will report for it
NO_TRANSACTIONS == "11111111111111111111111111111111"
Chunk(mask, tx_root, transactions) ==
    [mask |-> mask, tx_root |-> tx_root, transactions |-> transactions]
ChunkHeaders ==
    {Chunk(m, NO_TRANSACTIONS, 0) : m \in BOOLEAN}
    \cup {Chunk(m, "root", n) : m \in BOOLEAN, n \in {1, 2}}
ChunkSeqs == UNION {[1..n -> ChunkHeaders] : n \in 0..MaxChunks}

requests_unmasked(chunks) ==
    [i \in 1..Len(chunks) |->
        IF chunks[i].tx_root = NO_TRANSACTIONS THEN "zero" ELSE "pending"]

\* block.chunks.filter(chunk_mask).map(async ...): per chunk, whether it is
\* filtered out, answered 0 without a query, or has its provider.chunk query
\* outstanding, once map has returned
requests(chunks) ==
    [i \in 1..Len(chunks) |->
        IF ~chunks[i].mask THEN "filtered"
        ELSE IF chunks[i].tx_root = NO_TRANSACTIONS THEN "zero"
        ELSE "pending"]

Pending(reqs) == {i \in 1..Len(reqs) : reqs[i] = "pending"}

\* the counts Promise.all resolves with, a filtered chunk counting nothing
counts(chunks, reqs) ==
    [i \in 1..Len(chunks) |-> IF reqs[i] = "resolved" THEN chunks[i].transactions ELSE 0]

\* getBlockTransactionCount up to its await of provider.block
GetBlockTransactionCount(p) ==
    /\ calls[p].pc = "idle"
    /\ calls' = [calls EXCEPT ![p] =
            [@ EXCEPT !.op = "getBlockTransactionCount", !.pc = "block", !.nBackend = 1]]
    /\ UNCHANGED <<storeVars, records, engineStorage>>

\* provider.block rejects (or parseBlockID throws): caught
BlockFails(p) ==
    /\ calls[p].pc = "block"
    /\ calls' = [calls EXCEPT ![p] =
            [@ EXCEPT !.pc = "done", !.result = Err(<<"error.message">>)]]
    /\ UNCHANGED <<storeVars, records, engineStorage>>

\* provider.block resolves: the chunk queries are all issued before
\* Promise.all is awaited; with none to wait for the sum is returned
BlockSettle(p, blocks) ==
    /\ calls[p].pc = "block"
    /\ \E chunks \in blocks :
        LET reqs == requests(chunks)
        IN  calls' = [calls EXCEPT ![p] =
                IF Pending(reqs) = {}
                THEN [@ EXCEPT !.pc = "done", !.chunks = chunks, !.requests = reqs,
                               !.count = reduce(counts(chunks, reqs), 0),
                               !.result = Ok(None, 0)]
                ELSE [@ EXCEPT !.pc = "chunks", !.chunks = chunks, !.requests = reqs,
                               !.nBackend = @ + Cardinality(Pending(reqs))]]
    /\ UNCHANGED <<storeVars, records, engineStorage>>

\* a provider.chunk query resolves; the last one lets Promise.all resolve.
\* After a rejection the method has returned and the answer is dropped.
ChunkResolves(p, i) ==
    /\ calls[p].op = "getBlockTransactionCount"
    /\ calls[p].pc \in {"chunks", "done"}
    /\ i \in Pending(calls[p].requests)
    /\ LET reqs == [calls[p].requests EXCEPT ![i] = "resolved"]
       IN  calls' = [calls EXCEPT ![p] =
                IF calls[p].pc = "chunks" /\ Pending(reqs) = {}
                THEN [@ EXCEPT !.pc = "done", !.requests = reqs,
                               !.count = reduce(counts(calls[p].chunks, reqs), 0),
                               !.result = Ok(None, 0)]
                ELSE [@ EXCEPT !.requests = reqs]]
    /\ UNCHANGED <<storeVars, records, engineStorage>>

\* a provider.chunk query rejects: Promise.all rejects with the first
\* rejection, which is caught, whatever is still outstanding
ChunkRejects(p, i) ==
    /\ calls[p].op = "getBlockTransactionCount"
    /\ calls[p].pc \in {"chunks", "done"}
    /\ i \in Pending(calls[p].requests)
    /\ calls' = [calls EXCEPT ![p] =
            IF calls[p].pc = "chunks"
            THEN [@ EXCEPT !.pc = "done", !.requests[i] = "rejected",
                           !.result = Err(<<"error.message">>)]
            ELSE [@ EXCEPT !.requests[i] = "rejected"]]
    /\ UNCHANGED <<storeVars, records, engineStorage>>

\* the engine used by one caller, one method at a time; the signer has
\* between zero and three keys in the in-memory store
SignerPools ==
    {<<>>,
     <<[account |-> signerID, keyPairs |-> <<"k1">>]>>,
     <<[account |-> signerID, keyPairs |-> <<"k1", "k2">>]>>,
     <<[account |-> signerID, keyPairs |-> <<"k1", "k2", "k3">>]>>}

EngineInit ==
    /\ networkID = "testnet"
    /\ reKeyCounter = 0
    /\ store \in SignerPools
    /\ lower = <<>>
    /\ ret = NothingReturned
    /\ rotLog = NoLog
    /\ reKeys = 0
    /\ EngineIdle

\* the scans the backend answers getStorage with
SomeScans ==
    {<<>>,
     <<Record(<<Nonce>> \o AddrA, <<5>>), Record(<<Balance>> \o AddrA, <<0, 100>>),
       Record(<<Storage>> \o AddrA \o Slot1, <<7>>)>>}

EngineNext ==
    \/ \E arg \in PlainArgs : Call("p1", arg)
    \/ \E arg \in SubmitArgs : Submit("p1", arg)
    \/ \E arg \in PlainArgs : DeployCode("p1", arg)
    \/ Initialize("p1")
    \/ SignerLookup("p1")
    \/ \E fc \in FcOutcomes : FunctionCallSettle("p1", fc)
    \/ \E status \in TxStatuses : TxStatusSettle("p1", status)
    \/ InitializeAndThen("p1")
    \/ \E op \in ViewOps, arg \in PlainArgs, options \in OptionsArgs : ViewCall("p1", op, arg, options)
    \/ \E op \in ViewOps, arg \in PlainArgs : ViewCallAgain("p1", op, arg)
    \/ \E ok \in BOOLEAN, output \in {"decodable", "garbage"} : QuerySettle("p1", ok, output)
    \/ GetStorage("p1")
    \/ ViewStateFails("p1")
    \/ ViewStateSettle("p1", SomeScans)
    \/ Return("p1")

SpecEngine == EngineInit /\ [][EngineNext]_vars

\* two callers of call() on one engine: their mutating calls may overlap
OverlapFcOutcomes ==
    {FcOutcome("resolve", TRUE, "tx1", "decodable", None, <<>>),
     FcOutcome("reject", FALSE, None, None, "Other", <<>>)}

OverlapTxStatuses == {NoTxStatus, TxStatus(TRUE, <<10>>, <<5>>)}

OverlapInit == EngineInit

OverlapNext ==
    \/ \E p \in Procs : Call(p, NoArg)
    \/ \E p \in Procs : SignerLookup(p)
    \/ \E p \in Procs : \E fc \in OverlapFcOutcomes : FunctionCallSettle(p, fc)
    \/ \E p \in Procs : \E status \in OverlapTxStatuses : TxStatusSettle(p, status)
    \/ \E p \in Procs : Return(p)

SpecOverlap == OverlapInit /\ [][OverlapNext]_vars

\* getBlockTransactionCount over every block of up to MaxChunks chunks
BlockInit ==
    /\ EngineInit
    /\ store = <<>>

BlockNext ==
    \/ GetBlockTransactionCount("p1")
    \/ BlockFails("p1")
    \/ BlockSettle("p1", ChunkSeqs)
    \/ \E i \in 1..MaxChunks : ChunkResolves("p1", i)
    \/ \E i \in 1..MaxChunks : ChunkRejects("p1", i)
    \/ Return("p1")

SpecBlock == BlockInit /\ [][BlockNext]_vars

\* the state demultiplexer over every scan of up to MaxRecords records
StorageNext ==
    \/ GetStorage("p1")
    \/ ViewStateFails("p1")
    \/ ViewStateSettle("p1", RecordSeqs)
    \/ Return("p1")

StorageInit ==
    /\ EngineInit
    /\ store = <<>>

SpecStorage == StorageInit /\ [][StorageNext]_vars

(***************************************************************************)
(* Properties of the key store.                                            *)
(***************************************************************************)
Pool(a) == IF MapHas(store, a) THEN MapGet(store, a) ELSE <<>>

\* C1: with k >= 1 keys for an account and no setKey/removeKey/clear in
\* between, the keys getKey returns after consecutive reKey calls are pairwise
\* distinct within any k of them, any k consecutive ones are exactly the pool,
\* and the key after k more reKey calls is the same one again.
C1_RotationCycles ==
    \A a \in AccountIDs :
        LET k == Len(Pool(a))
            log == rotLog[a]
        IN  k >= 1 =>
              /\ \A i, j \in 1..Len(log) :
                    /\ (i < j /\ j - i < k) => log[i] # log[j]
                    /\ j - i = k => log[i] = log[j]
              /\ \A i \in 1..Len(log) :
                    i + k - 1 <= Len(log) =>
                        {log[j] : j \in i..(i + k - 1)} = Range(Pool(a))

C1_Witness ==
    \E a \in AccountIDs : Len(Pool(a)) = 3 /\ Len(rotLog[a]) = 4

\* C2: setKey naming a network other than the bound one changes neither any
\* pool nor the rotation counter (and returns normally).
C2_SetKeyOtherNetwork ==
    [][(ret'.op = "setKey" /\ ret'.net # networkID)
            => (store' = store /\ reKeyCounter' = reKeyCounter)]_vars

C2_Witness ==
    /\ ret.op = "setKey"
    /\ ret.net # networkID
    /\ MapHas(store, AcctA)
    /\ ~MapHas(store, ret.acct)
    /\ reKeyCounter > 0

\* C3: getKey for an account without a pool, or for another network, returns
\* undefined, whatever the rotation counter.
C3_GetKeyNone ==
    (ret.op = "getKey" /\ (ret.net # networkID \/ ~MapHas(store, ret.acct)))
        => ret.val = None

C3_Witness ==
    /\ ret.op = "getKey"
    /\ ret.net = networkID
    /\ ~MapHas(store, ret.acct)
    /\ store # <<>>
    /\ reKeyCounter > 0
    /\ ret.val = None

\* C9: KeyStore.getAccounts returns the union of the accounts of all sources
\* for the bound network, each once, in ascending lexical order.
C9_MergedAccounts ==
    ret.op = "KeyStore.getAccounts" =>
        /\ Range(ret.val) = Range(MapKeys(store)) \cup UNION {Range(lower[i]) : i \in 1..Len(lower)}
        /\ \A i, j \in 1..Len(ret.val) : i < j => StrLess(ret.val[i], ret.val[j])

C9_Witness ==
    /\ ret.op = "KeyStore.getAccounts"
    /\ MapKeys(store) = <<AcctB, AcctA>>
    /\ lower = <<<<AcctB>>, <<AcctAB, AcctA>>>>
    /\ ret.val = <<AcctA, AcctAB, AcctB>>

(***************************************************************************)
(* Properties of the engine.                                               *)
(***************************************************************************)
\* C4: a mutating call advances the store's one rotation counter exactly
\* once, and has done so before its signer key is looked up: while the call
\* is in flight the counter is one above its value on entry, and the key
\* looked up is the pool member selected by that advanced counter.
C4_ReKeyBeforeLookup ==
    \A p \in Procs :
        LET c == calls[p]
            k == Len(Pool(signerID))
        IN  /\ c.pc \in {"functionCall", "signed", "txStatus"} => reKeyCounter = c.ctr0 + 1
            /\ (c.pc = "done" /\ c.nFunctionCall > 0) => reKeyCounter = c.ctr0 + 1
            /\ c.pc \in {"signed", "txStatus"} =>
                  /\ c.keyCtr = c.ctr0 + 1
                  /\ k > 0 => c.key = Pool(signerID)[((c.ctr0 + 1) % k) + 1]

C4_Witness ==
    /\ calls["p1"].pc = "signed"
    /\ calls["p1"].method = "new_eth_connector"
    /\ calls["p1"].ctr0 = 1
    /\ calls["p1"].key = "k3"

\* C5: submit with a transaction that parses but has a gas limit below
\* 21000 returns Err("ERR_INTRINSIC_GAS") and issues no backend request.
C5_IntrinsicGas ==
    \A p \in Procs :
        LET c == calls[p]
        IN  (/\ c.op = "submit"
             /\ ~prepareInputThrows(c.arg)
             /\ c.arg.parses
             /\ c.arg.gasLimit < INTRINSIC_GAS)
            => /\ c.pc = "done"
               /\ c.result = Err(<<"ERR_INTRINSIC_GAS">>)
               /\ c.nBackend = 0

C5_Witness ==
    /\ calls["p1"].op = "submit"
    /\ calls["p1"].arg = Arg("hexString", TRUE, 20000)
    /\ calls["p1"].pc = "done"
    /\ calls["p1"].result = Err(<<"ERR_INTRINSIC_GAS">>)

\* C6: submit with an input, byte array or string, that does not parse as a
\* raw transaction returns Err("ERR_INVALID_TX") and issues no backend request.
C6_InvalidTx ==
    \A p \in Procs :
        LET c == calls[p]
        IN  (c.op = "submit" /\ (prepareInputThrows(c.arg) \/ ~c.arg.parses))
            => /\ c.pc = "done"
               /\ c.result = Err(<<"ERR_INVALID_TX">>)
               /\ c.nBackend = 0

\* C7: a public method of the engine completes with Ok or Err whatever the
\* backend answers; no exception leaves it.
C7_NoException ==
    \A p \in Procs :
        LET c == calls[p]
        IN  (c.pc = "done" /\ ~prepareInputThrows(c.arg)) => c.result.kind \in {"Ok", "Err"}

RECURSIVE SumOf(_)
SumOf(xs) == IF Len(xs) = 0 THEN 0 ELSE xs[1] + SumOf(Tail(xs))

\* C10: the gas burned reported for a transaction is the sum of gas_burnt
\* over its receipt outcomes plus the transaction outcome's gas_burnt
\* (10 and 20 with 5 give 35), and 0 when the status query fails.
C10_GasBurned ==
    \A p \in Procs :
        LET c == calls[p]
            burnt == IF Len(c.status.txGas) = 0 THEN 0 ELSE c.status.txGas[1]
        IN  (/\ c.pc = "done"
             /\ c.fc.txid # None
             /\ c.result.kind = "Ok" \/ c.result.details)
            => /\ c.status.ok => c.result.gasBurned = SumOf(c.status.receipts) + burnt
               /\ (c.status.ok /\ c.status.receipts = <<10, 20>> /\ c.status.txGas = <<5>>)
                    => c.result.gasBurned = 35
               /\ ~c.status.ok => c.result.gasBurned = 0

C10_Witness ==
    /\ calls["p1"].pc = "done"
    /\ calls["p1"].result.kind = "Ok"
    /\ calls["p1"].fc.txid = "tx1"
    /\ calls["p1"].status = TxStatus(TRUE, <<10, 20>>, <<5>>)
    /\ calls["p1"].result.gasBurned = 35

(***************************************************************************)
(* Properties of the state demultiplexer.                                  *)
(***************************************************************************)
\* the records of the scan that are not Config records
Indexed == {i \in 1..Len(records) : records[i].key[1] # Config}
AddressOf(i) == SubSeq(records[i].key, 2, 21)
\* the records of one type, address and (for Storage) slot number
Of(type, a) == {i \in Indexed : records[i].key[1] = type /\ AddressOf(i) = a}
OfSlot(a, n) == {i \in Of(Storage, a) : records[i].key[Len(records[i].key)] = n}
Last(is) == CHOOSE i \in is : \A j \in is : j <= i
\* a value of one or two bytes as a number
Number(v) == IF Len(v) = 1 THEN v[1] ELSE v[1] * 256 + v[2]

\* C8: getStorage returns one Address State per address of a non-Config
\* record; its nonce, balance and code are those of the last Nonce, Balance
\* and Code record of the address (0, 0 and no code without one) and its
\* storage maps each slot to the value of the last Storage record for it.
C8_Demultiplexed ==
    (calls["p1"].op = "getStorage" /\ calls["p1"].pc = "done" /\ calls["p1"].result.kind = "Ok")
    => /\ DOMAIN engineStorage = {toHex(AddressOf(i)) : i \in Indexed}
       /\ \A a \in Addresses :
            toHex(a) \in DOMAIN engineStorage =>
                LET state == engineStorage[toHex(a)]
                    slots == {records[i].key[Len(records[i].key)] : i \in Of(Storage, a)}
                IN  /\ state.nonce = IF Of(Nonce, a) = {} THEN 0
                                     ELSE Number(records[Last(Of(Nonce, a))].value)
                    /\ state.balance = IF Of(Balance, a) = {} THEN 0
                                       ELSE Number(records[Last(Of(Balance, a))].value)
                    /\ state.code = IF Of(Code, a) = {} THEN <<>>
                                    ELSE <<records[Last(Of(Code, a))].value>>
                    /\ DOMAIN state.storage = slots
                    /\ \A n \in slots :
                            state.storage[n] = Number(records[Last(OfSlot(a, n))].value)
       /\ records = <<Record(<<Nonce>> \o AddrA, <<5>>), Record(<<Balance>> \o AddrA, <<0, 100>>),
                      Record(<<Storage>> \o AddrA \o Slot1, <<7>>)>>
            => /\ DOMAIN engineStorage = {toHex(AddrA)}
               /\ engineStorage[toHex(AddrA)].nonce = 5
               /\ engineStorage[toHex(AddrA)].balance = 100
               /\ engineStorage[toHex(AddrA)].code = <<>>
               /\ engineStorage[toHex(AddrA)].storage = (1 :> 7)

C8_Witness ==
    /\ calls["p1"].op = "getStorage"
    /\ calls["p1"].pc = "done"
    /\ records = <<Record(<<Nonce>> \o AddrA, <<5>>), Record(<<Balance>> \o AddrA, <<0, 100>>),
                   Record(<<Storage>> \o AddrA \o Slot1, <<7>>)>>
    /\ DOMAIN engineStorage = {toHex(AddrA)}

(***************************************************************************)
(* Properties of the key store: other networks and the rotation counter.   *)
(***************************************************************************)
\* C17 as stated: a getKey, removeKey, clear or getAccounts call made for a
\* network other than the bound one changes no pool and not the rotation
\* counter, and getKey returns nothing and getAccounts the empty list.
C17_OtherNetworkNoOp ==
    [][(ret'.op \in {"getKey", "removeKey", "clear", "getAccounts"} /\ ret'.net # networkID)
            => /\ store' = store
               /\ reKeyCounter' = reKeyCounter
               /\ ret'.op = "getKey" => ret'.val = None
               /\ ret'.op = "getAccounts" => ret'.val = <<>>]_vars

\* C17: a getKey, removeKey or getAccounts call naming a network other than
\* the bound one changes no pool and not the rotation counter, getKey
\* returning nothing and getAccounts the empty list; clear takes no network,
\* so it empties every pool whatever network the caller has in mind, and
\* leaves the rotation counter alone.
C17_OtherNetworkReads ==
    [][/\ (ret'.op \in {"getKey", "removeKey", "getAccounts"} /\ ret'.net # networkID)
            => /\ store' = store
               /\ reKeyCounter' = reKeyCounter
               /\ ret'.op = "getKey" => ret'.val = None
               /\ ret'.op = "getAccounts" => ret'.val = <<>>
       /\ ret'.op = "clear" => (store' = <<>> /\ reKeyCounter' = reKeyCounter)]_vars

C17_Witness ==
    /\ ret.op = "removeKey"
    /\ ret.net # networkID
    /\ MapHas(store, ret.acct)
    /\ Len(MapGet(store, ret.acct)) = 2

\* C18: the rotation counter is the number of reKey calls made so far: reKey
\* adds exactly 1 and changes no pool, and setKey, getKey, removeKey, clear
\* and getAccounts leave the counter as it is.
C18_CounterCountsReKeys ==
    /\ [](reKeyCounter = reKeys)
    /\ [][/\ ret'.op = "reKey" => (reKeyCounter' = reKeyCounter + 1 /\ store' = store)
          /\ ret'.op \in {"setKey", "getKey", "removeKey", "clear", "getAccounts"}
                => reKeyCounter' = reKeyCounter]_vars

C18_Witness ==
    /\ ret.op = "clear"
    /\ reKeys = 2
    /\ reKeyCounter = 2

(***************************************************************************)
(* Properties of mutating calls.                                           *)
(***************************************************************************)
\* callMutativeFunction has returned: signer.functionCall settled as c.fc and
\* c.outcome is what callMutativeFunction made of it
Settled(c) == c.pc \in {"done", "andThen"} /\ c.fc.settle # "none"

Succeeded(fc) == fc.settle = "resolve" /\ fc.success

\* the message each kind of failure is reported with
ClassifiedMessage(fc) ==
    CASE fc.settle = "resolve" -> <<"result.toString()">>
      [] fc.settle = "reject" /\ fc.type = "FunctionCallError" /\ fc.kind = <<>> -> <<"error.message">>
      [] fc.settle = "reject" /\ fc.type = "FunctionCallError" /\ fc.kind # <<>> ->
            IF fc.kind[1] = PANIC THEN Tail(fc.kind) ELSE fc.kind
      [] fc.settle = "reject" /\ fc.type = "MethodNotFound" -> <<"error.message">>
      [] OTHER -> <<"error.toString()">>

\* C11: gas accounting never changes the outcome of a mutating call: a
\* functionCall that settled with a success value gives Ok, with gasBurned 0
\* when the status query failed or there is no transaction reference, a failed
\* one gives the Err of its category, and no exception leaves the call.
C11_GasNeverDecides ==
    \A p \in Procs :
        LET c == calls[p]
        IN  Settled(c) =>
              /\ c.outcome.kind \in {"Ok", "Err"}
              /\ Succeeded(c.fc) =>
                    /\ c.outcome.kind = "Ok"
                    /\ (c.fc.txid = None \/ ~c.status.ok) => c.outcome.gasBurned = 0
              /\ ~Succeeded(c.fc) =>
                    /\ c.outcome.kind = "Err"
                    /\ c.outcome.msg = ClassifiedMessage(c.fc)

C11_Witness ==
    /\ calls["p1"].pc = "done"
    /\ calls["p1"].op = "call"
    /\ Succeeded(calls["p1"].fc)
    /\ calls["p1"].nTxStatus = 1
    /\ ~calls["p1"].status.ok
    /\ calls["p1"].outcome = Ok("tx1", 0)

\* C12: a mutating call whose backend response carries no success value
\* returns Err with the response's string representation, never Ok.
C12_NoSuccessValue ==
    \A p \in Procs :
        LET c == calls[p]
        IN  (Settled(c) /\ c.fc.settle = "resolve" /\ ~c.fc.success)
            => /\ c.outcome = Err(<<"result.toString()">>)
               /\ c.result.kind # "Ok"

C12_Witness ==
    /\ calls["p1"].pc = "done"
    /\ calls["p1"].op = "deployCode"
    /\ calls["p1"].fc.settle = "resolve"
    /\ ~calls["p1"].fc.success
    /\ calls["p1"].result = Err(<<"result.toString()">>)

Rejected(c, type) == Settled(c) /\ c.fc.settle = "reject" /\ c.fc.type = type

\* the gas the status query c made reports, 0 when the query failed
GasReported(c) ==
    IF c.status.ok THEN SumOf(c.status.receipts) + SumOf(c.status.txGas) ELSE 0

\* C15: a mutating call that fails with FunctionCallError returns Err with the
\* abort message, its leading "Smart contract panicked: " removed, and with
\* details carrying the transaction reference and the gas burned; the gas
\* burned comes from a status query made although the call failed.
C15_ExecutionFailure ==
    \A p \in Procs :
        LET c == calls[p]
        IN  Rejected(c, "FunctionCallError") =>
              /\ c.outcome.kind = "Err"
              /\ c.result = c.outcome
              /\ (c.fc.kind # <<>> /\ c.fc.kind[1] = PANIC) => c.outcome.msg = Tail(c.fc.kind)
              /\ (c.fc.kind # <<>> /\ c.fc.kind[1] # PANIC) => c.outcome.msg = c.fc.kind
              /\ c.fc.kind = <<>> => c.outcome.msg = <<"error.message">>
              /\ c.outcome.details
              /\ c.outcome.tx = c.fc.txid
              /\ c.fc.txid # None =>
                    /\ c.nTxStatus = 1
                    /\ c.outcome.gasBurned = GasReported(c)

C15_Witness ==
    /\ calls["p1"].pc = "done"
    /\ calls["p1"].fc = FcOutcome("reject", FALSE, "tx1", None, "FunctionCallError",
                                  <<PANIC, "ERR_X">>)
    /\ calls["p1"].nTxStatus = 1
    /\ calls["p1"].result = errorWithDetails(<<"ERR_X">>, "tx1", 35)

\* C16: a mutating call that fails with MethodNotFound returns Err with the
\* backend's message and no details, one that fails in any category other than
\* FunctionCallError and MethodNotFound returns Err with the error's string
\* representation, and in both cases functionCall was issued once for it.
C16_NotFoundAndOthers ==
    \A p \in Procs :
        LET c == calls[p]
        IN  /\ Rejected(c, "MethodNotFound") => c.outcome = Err(<<"error.message">>)
            /\ Rejected(c, "Other") => c.outcome = Err(<<"error.toString()">>)
            /\ (Rejected(c, "MethodNotFound") \/ Rejected(c, "Other")) =>
                  /\ c.pc = "done"
                  /\ c.result = c.outcome
                  /\ ~c.outcome.details
                  /\ c.nFunctionCall = IF c.method = "new_eth_connector" THEN 2 ELSE 1

C16_Witness ==
    /\ calls["p1"].pc = "done"
    /\ calls["p1"].op = "call"
    /\ calls["p1"].fc.type = "MethodNotFound"
    /\ calls["p1"].fc.txid = "tx1"
    /\ calls["p1"].nFunctionCall = 1
    /\ calls["p1"].result = Err(<<"error.message">>)

\* C19 as stated: whenever functionCall has settled, successfully or with a
\* failure of any category, with a transaction reference, txStatus is queried
\* for that reference.
C19_AlwaysQueried ==
    \A p \in Procs :
        LET c == calls[p]
        IN  (Settled(c) /\ c.fc.txid # None) => c.nTxStatus = 1

\* C19: txStatus is queried, once and after functionCall has settled, exactly
\* when functionCall returned a success value or failed with
\* FunctionCallError and the transaction reference is known; a call failing
\* in another category, or answered without a success value, queries nothing.
C19_QueriedForGas ==
    \A p \in Procs :
        LET c == calls[p]
            wanted == /\ c.fc.txid # None
                      /\ \/ c.fc.settle = "resolve" /\ c.fc.success
                         \/ c.fc.settle = "reject" /\ c.fc.type = "FunctionCallError"
        IN  /\ Settled(c) => c.nTxStatus = IF wanted THEN 1 ELSE 0
            /\ c.pc \in {"functionCall", "signed"} => c.nTxStatus = 0
            /\ c.pc = "txStatus" => c.fc.settle # "none" /\ wanted /\ c.nTxStatus = 1

C19_Witness ==
    /\ calls["p1"].pc = "done"
    /\ calls["p1"].op = "submit"
    /\ calls["p1"].fc.type = "FunctionCallError"
    /\ calls["p1"].fc.txid = "tx1"
    /\ calls["p1"].nTxStatus = 1
    /\ calls["p1"].status.ok

(***************************************************************************)
(* Properties of overlapping mutating calls.                               *)
(***************************************************************************)
\* the call c has looked up its signer key
LookedUp(c) == c.pc \in {"signed", "txStatus", "done"}

\* d was issued right after c, with no mutating call in between
IssuedNext(c, d) == d.ctr0 = c.ctr0 + 1

\* c, issued when the counter was c.ctr0, looked its key up before / after
\* the next call was issued
LookupBeforeNext(c) == c.keyCtr = c.ctr0 + 1
LookupAfterNext(c) == c.keyCtr = c.ctr0 + 2

\* both calls have been issued and neither has looked up its signer key
BothIssued ==
    /\ calls["p1"].pc = "functionCall"
    /\ calls["p2"].pc = "functionCall"
    /\ Len(Pool(signerID)) >= 2

\* the two key lookups, in either order, ending with the same key or not
BothLookUp(same) ==
    \E p, q \in Procs :
        /\ p # q
        /\ SignerLookup(p)
        /\ (ENABLED (SignerLookup(q) /\ ((calls'[p].key = calls'[q].key) <=> same)))'

\* C20 as stated: when the second call is issued before the first has looked
\* up its signer key, on a pool of k >= 2 keys, each call has advanced the
\* counter once (it is 2 higher), and the lookups can be interleaved so that
\* the calls sign with the same key and so that they sign with different keys.
C20_EitherOutcomeReachable ==
    BothIssued =>
        /\ reKeyCounter = reKeys
        /\ \E p, q \in Procs : calls[q].ctr0 = calls[p].ctr0 + 1 /\ reKeyCounter = calls[p].ctr0 + 2
        /\ ENABLED BothLookUp(TRUE)
        /\ ENABLED BothLookUp(FALSE)

\* C20: every mutating call advances the rotation counter exactly once, so that
\* two calls in flight together leave it 2 higher. On a pool of k >= 2 keys,
\* when the second call is issued before the first has looked up its key (and
\* no further call before both lookups), the two calls sign with the same key;
\* when the first's lookup comes before the second is issued, they sign with
\* different keys.
C20_OverlappingCalls ==
    /\ reKeyCounter = reKeys
    /\ \A p, q \in Procs :
        LET c == calls[p]
            d == calls[q]
            k == Len(Pool(signerID))
        IN  (p # q /\ c.pc # "idle" /\ d.pc # "idle" /\ IssuedNext(c, d)) =>
              /\ reKeyCounter >= c.ctr0 + 2
              /\ (c.pc # "done" /\ d.pc # "done") => reKeyCounter = c.ctr0 + 2
              /\ (k >= 2 /\ LookedUp(c) /\ LookedUp(d) /\ LookupBeforeNext(d)) =>
                    /\ c.key = Pool(signerID)[(c.keyCtr % k) + 1]
                    /\ d.key = Pool(signerID)[(d.keyCtr % k) + 1]
                    /\ LookupAfterNext(c) => c.key = d.key
                    /\ LookupBeforeNext(c) => c.key # d.key

C20_Witness ==
    /\ Len(Pool(signerID)) = 2
    /\ calls["p1"].pc = "signed"
    /\ calls["p2"].pc = "signed"
    /\ calls["p1"].ctr0 = 0
    /\ calls["p2"].ctr0 = 1
    /\ LookupAfterNext(calls["p1"])
    /\ reKeyCounter = 2
    /\ calls["p1"].key = "k1"
    /\ calls["p2"].key = "k1"

\* the first call looked its key up before the second was issued, both still
\* in flight: different keys
C20_DifferentKeys ==
    /\ Len(Pool(signerID)) = 2
    /\ calls["p1"].pc = "signed"
    /\ calls["p2"].pc = "signed"
    /\ calls["p1"].ctr0 = 0
    /\ calls["p2"].ctr0 = 1
    /\ LookupBeforeNext(calls["p1"])
    /\ calls["p1"].key = "k2"
    /\ calls["p2"].key = "k1"

(***************************************************************************)
(* Properties of view calls.                                               *)
(***************************************************************************)
\* callFunction has sent its request for the view method c
Queried(c) == c.op \in ViewOps /\ c.pc \in {"query", "done"} /\ c.nBackend = 1

\* C13: every request callFunction sends carries exactly one of finality and
\* block selector: finality "final" and no selector when callFunction was given
\* none (undefined or null), the selector and no finality when it was given
\* one, 0 included.
C13_FinalityOrBlock ==
    \A p \in Procs :
        LET c == calls[p]
            block == IF c.options.t = "object" THEN c.options.block ELSE Undefined
        IN  Queried(c) =>
              /\ (c.req.finality = "final") # (c.req.block_id # Undefined)
              /\ c.req.finality \in {"final", None}
              /\ block \in {Undefined, Null} => c.req = Request("final", Undefined)
              /\ block \notin {Undefined, Null} => c.req = Request(None, block)

C13_Witness ==
    /\ calls["p1"].pc = "query"
    /\ calls["p1"].op = "getBalance"
    /\ calls["p1"].options = ViewOptions(Num(0))
    /\ calls["p1"].req = Request(None, Num(0))

\* C14: a view method called with block selector b sends exactly b as the
\* block selector of its request.
C14_SelectorVerbatim ==
    \A p \in Procs :
        LET c == calls[p]
        IN  (Queried(c) /\ c.given.t = "object" /\ c.given.block \notin {Undefined, Null})
            => c.req.block_id = c.given.block

\* C25: a caller that passes the same options object to successive view
\* calls sends the same block selector every time, and finds its object as it
\* made it.
C25_SameObjectSameRequest ==
    \A p \in Procs :
        LET c == calls[p]
        IN  (Queried(c) /\ c.repeat >= 1) =>
              /\ c.options = c.original
              /\ c.prevReq # NoRequest => c.req.block_id = c.prevReq.block_id

(***************************************************************************)
(* Properties of mutating calls made one after another.                    *)
(***************************************************************************)
\* C21: with mutating calls made strictly one after another and the pool left
\* alone, any two consecutive calls sign with different keys when the signer
\* has k >= 2 keys, and every call signs with the one key when it has one.
C21_SequentialCallsRotate ==
    LET log == calls["p1"].signed
        k == Len(Pool(signerID))
    IN  /\ k >= 2 => \A i \in 1..(Len(log) - 1) : log[i] # log[i + 1]
        /\ k = 1 => \A i \in 1..Len(log) : log[i] = Pool(signerID)[1]
        /\ k >= 1 => \A i \in 1..Len(log) : log[i] \in Range(Pool(signerID))

C21_Witness ==
    /\ Len(Pool(signerID)) = 2
    /\ calls["p1"].pc = "done"
    /\ calls["p1"].op = "submit"
    /\ calls["p1"].signed = <<"k2", "k1", "k2">>

(***************************************************************************)
(* Properties of the key store: the accounts listed.                       *)
(***************************************************************************)
\* C22: getAccounts for the bound network lists exactly the accounts getKey
\* returns a key for, each once, and so none with an empty pool; after
\* removeKey for the bound network and account A, A is not listed, getKey
\* for A returns nothing and every other account's pool is as before.
C22_AccountsHaveKeys ==
    /\ [](LET listed == getAccounts(store, networkID)
          IN  /\ \A i, j \in 1..Len(listed) : i # j => listed[i] # listed[j]
              /\ Range(listed) =
                    {a \in AllAccountIDs : getKey(store, reKeyCounter, networkID, a) # None}
              /\ \A a \in Range(listed) : Len(Pool(a)) >= 1)
    /\ [][(ret'.op = "removeKey" /\ ret'.net = networkID)
            => /\ ret'.acct \notin Range(getAccounts(store', networkID))
               /\ getKey(store', reKeyCounter', networkID, ret'.acct) = None
               /\ \A b \in AllAccountIDs \ {ret'.acct} : Pool(b)' = Pool(b)]_vars

C22_Witness ==
    /\ ret.op = "removeKey"
    /\ ret.net = networkID
    /\ ret.acct = AcctA
    /\ reKeyCounter = 1
    /\ getAccounts(store, networkID) = <<AcctB>>
    /\ Len(Pool(AcctB)) = 2

(***************************************************************************)
(* Properties of the merged key store: loading key files.                  *)
(***************************************************************************)
\* the files loadKeyFile / loadKeyFiles got through: those before the first
\* unreadable one
RECURSIVE Loaded(_)
Loaded(files) ==
    IF Len(files) = 0 \/ ~files[1].ok THEN <<>> ELSE <<files[1]>> \o Loaded(Tail(files))

\* C23: loadKeyFile and loadKeyFiles add each key they load to the pool its
\* account has in the first source of the merge, take no key away and leave
\* the other sources as they are; getKey over the merge then returns, for
\* each such account and any account the first source has, a key of the
\* first source, also when a lower source has a key for the account.
C23_LoadIntoFirstSource ==
    /\ [][ret'.op \in {"loadKeyFile", "loadKeyFiles"}
            => /\ lower' = lower
               /\ reKeyCounter' = reKeyCounter
               /\ \A a \in AllAccountIDs :
                     Range(Pool(a)') =
                        Range(Pool(a)) \cup
                        {f.keyPair : f \in {g \in Range(Loaded(ret'.val)) : g.account = a}}
               /\ \A f \in Range(Loaded(ret'.val)) :
                     KeyStore_getKey(networkID, f.account)' \in Range(Pool(f.account)')]_vars
    /\ [](\A a \in AllAccountIDs :
            MapHas(store, a) => KeyStore_getKey(networkID, a) \in Range(Pool(a)))

C23_Witness ==
    /\ ret.op = "loadKeyFiles"
    /\ ret.val = <<KeyFile(TRUE, AcctA, "k2"), KeyFile(TRUE, AcctA, "k1")>>
    /\ lower = <<<<AcctB>>, <<AcctAB, AcctA>>>>
    /\ Pool(AcctA) = <<"k2", "k1">>
    /\ LowerGetKey(1, AcctA) = "cli"
    /\ KeyStore_getKey(networkID, AcctA) = "k2"

(***************************************************************************)
(* Properties of getBlockTransactionCount.                                 *)
(***************************************************************************)
\* the chunks a query is due for: those in chunk_mask whose tx_root is not
\* the root of no transactions
Due(chunks) ==
    {i \in 1..Len(chunks) : chunks[i].mask /\ chunks[i].tx_root # NO_TRANSACTIONS}

Issued(reqs) == {i \in 1..Len(reqs) : reqs[i] \in {"pending", "resolved", "rejected"}}

Rejections(reqs) == {i \in 1..Len(reqs) : reqs[i] = "rejected"}

\* C24 as stated: one query is issued per chunk of the block, the result is
\* produced only when every issued query has completed, never more queries
\* are outstanding than the block has chunks, and a failed block lookup or
\* chunk query gives Err.
C24_JoinsOnEveryChunk ==
    \A p \in Procs :
        LET c == calls[p]
        IN  (c.op = "getBlockTransactionCount" /\ c.pc \in {"chunks", "done"}) =>
              /\ Cardinality(Issued(c.requests)) = Len(c.chunks)
              /\ Cardinality(Pending(c.requests)) <= Len(c.chunks)
              /\ c.pc = "done" => Pending(c.requests) = {}
              /\ (c.pc = "done" /\ Rejections(c.requests) # {}) => c.result.kind = "Err"

\* C24: getBlockTransactionCount issues, all at once, one query for each chunk
\* that is in chunk_mask and has transactions, so never more than the block
\* has chunks; when all have resolved it returns Ok with the sum of their
\* transaction counts, whatever the order of the answers; when the block
\* lookup fails or a chunk query fails it returns Err, at the first failure
\* and without waiting for the queries still outstanding.
C24_FanOutFanIn ==
    \A p \in Procs :
        LET c == calls[p]
            expected == [i \in 1..Len(c.chunks) |->
                            IF i \in Due(c.chunks) THEN c.chunks[i].transactions ELSE 0]
        IN  (c.op = "getBlockTransactionCount" /\ c.pc \in {"chunks", "done"}) =>
              /\ Issued(c.requests) = Due(c.chunks)
              /\ c.nBackend = 1 + Cardinality(Due(c.chunks))
              /\ Cardinality(Pending(c.requests)) <= Len(c.chunks)
              /\ c.pc = "chunks" => (Pending(c.requests) # {} /\ Rejections(c.requests) = {})
              /\ c.pc = "done" =>
                    /\ c.result.kind \in {"Ok", "Err"}
                    /\ c.result.kind = "Ok" =>
                          /\ Pending(c.requests) = {}
                          /\ Rejections(c.requests) = {}
                          /\ c.count = SumOf(expected)
                    /\ Rejections(c.requests) # {} => c.result = Err(<<"error.message">>)
                    /\ (c.result.kind = "Err" /\ Len(c.chunks) > 0) => Rejections(c.requests) # {}

C24_Witness ==
    /\ calls["p1"].pc = "done"
    /\ calls["p1"].chunks = <<Chunk(TRUE, "root", 1), Chunk(TRUE, NO_TRANSACTIONS, 0),
                               Chunk(TRUE, "root", 2)>>
    /\ calls["p1"].requests = <<"resolved", "zero", "resolved">>
    /\ calls["p1"].nBackend = 3
    /\ calls["p1"].count = 3
    /\ calls["p1"].result.kind = "Ok"

\* a chunk query has failed and the method has returned Err while another
\* query is still outstanding
C24_FailsFast ==
    /\ calls["p1"].pc = "done"
    /\ calls["p1"].result.kind = "Err"
    /\ calls["p1"].requests = <<"rejected", "pending">>

(***************************************************************************)
(* Properties of initialize.                                               *)
(***************************************************************************)
\* C26: initialize makes its two mutating calls one after the other:
\* 'new_eth_connector' is sent only once 'new' has returned Ok; when 'new'
\* returns Err, nothing more is sent, the rotation counter has advanced once
\* and initialize returns that Err; when both return Ok it returns the
\* transaction id of the second call.
C26_InitializeInSequence ==
    \A p \in Procs :
        LET c == calls[p]
        IN  c.op = "initialize" =>
              /\ c.method \in {"new", "new_eth_connector"}
              /\ c.method = "new" =>
                    /\ c.nFunctionCall = 1
                    /\ reKeyCounter = c.entry + 1
                    /\ c.pc = "andThen" <=> (Settled(c) /\ c.outcome.kind = "Ok")
                    /\ c.pc = "done" => (c.outcome.kind = "Err" /\ c.result = c.outcome)
              /\ c.method = "new_eth_connector" =>
                    /\ c.firstOutcome.kind = "Ok"
                    /\ c.nFunctionCall = 2
                    /\ reKeyCounter = c.entry + 2
                    /\ c.pc = "done" =>
                          /\ c.result = c.outcome
                          /\ c.result.kind = "Ok" => c.result.tx = c.fc.txid

C26_Witness ==
    /\ calls["p1"].op = "initialize"
    /\ calls["p1"].pc = "done"
    /\ calls["p1"].firstOutcome.kind = "Ok"
    /\ calls["p1"].firstOutcome.tx = "tx1"
    /\ calls["p1"].fc.txid = "tx2"
    /\ calls["p1"].result.kind = "Ok"
    /\ calls["p1"].result.tx = "tx2"

\* 'new' has failed: initialize is done with its Err after one call
C26_NewFails ==
    /\ calls["p1"].op = "initialize"
    /\ calls["p1"].pc = "done"
    /\ calls["p1"].method = "new"
    /\ calls["p1"].fc.type = "FunctionCallError"
    /\ calls["p1"].result.kind = "Err"
    /\ calls["p1"].result.details
    /\ reKeyCounter = 1

====
